---- MODULE Spec2Model ----
(***************************************************************************)
(* A model of redbird.sql.Table (src/redbird/sql/expressions.py): the      *)
(* filter translator (to_sql_expressions), the statement dispatcher        *)
(* (select/insert/update/delete/count/create/reflect), the type bridge     *)
(* (to_native) and the transaction scope (_trans_ctx, __enter__/__exit__,  *)
(* commit/rollback).  The relational toolkit (SQLAlchemy) and the database *)
(* are modelled by their documented behaviour: a connection with a         *)
(* transaction keeps its writes pending until commit, and the context      *)
(* manager returned by Engine.begin() commits on a normal exit and rolls   *)
(* back on an exit with an error.  The database is one that admits a      *)
(* single writer, as the SQLite database of the repository's tests: while  *)
(* a connection holds uncommitted writes, a write through any other        *)
(* connection fails ("database is locked"), and the others read the        *)
(* committed content.                                                      *)
(***************************************************************************)
EXTENDS Integers, Sequences, FiniteSets, TLC

(***************************************************************************)
(* Bounds of the model.                                                    *)
(***************************************************************************)
MaxRows == 2        \* rows a table may hold
MaxScore == 2       \* the integer column holds 1..MaxScore
MaxConns == 2       \* connections the engine gives out in one behaviour
MaxScopes == 1      \* transaction scopes opened in one behaviour of SpecTx
MaxHandles == 3     \* schema handles (sqlalchemy.Table objects) built

(***************************************************************************)
(* Python values.  Every value carries its type as its field name, so that *)
(* isinstance() is a test on the field and values of different types are   *)
(* never equal.                                                            *)
(***************************************************************************)
NoneVal == [none |-> TRUE]
PyInt(n) == [int |-> n]
PyStr(s) == [str |-> s]
PyDate(y, m, d) == [date |-> <<y, m, d>>]
PySet(vs) == [set |-> vs]
PySlice(a, b) == [slice |-> <<a, b>>]
PyList(xs) == [list |-> xs]

IsNone(v) == DOMAIN v = {"none"}
IsInt(v) == DOMAIN v = {"int"}
IsStr(v) == DOMAIN v = {"str"}
IsDate(v) == DOMAIN v = {"date"}

Names == {"Jack", "John"}
Scores == 1..MaxScore
IsoDates == {"2000-01-01", "1990-01-01"}

(***************************************************************************)
(* Column types: Table.types maps the native types to SQLAlchemy types;    *)
(* a column of a schema handle carries its name, its type and nullability. *)
(***************************************************************************)
types == [str |-> "String", int |-> "Integer", date |-> "Date"]

Col(n, t) == [name |-> n, type |-> t, nullable |-> TRUE]

PopulatedColumns == <<Col("name", types.str), Col("birth_date", types.date),
                      Col("score", types.int)>>

ColNames(cols) == {cols[i].name : i \in 1..Len(cols)}

ColOf(cols, n) == cols[CHOOSE i \in 1..Len(cols) : cols[i].name = n]

(***************************************************************************)
(* redbird.oper: the operations a filter may hold.  Between and In are     *)
(* classes of their own, skip is one object, a comparator carries the name *)
(* of the Python magic method of its operator (__py_magic__) and its       *)
(* value, and any other Operation carries neither.                         *)
(***************************************************************************)
Between(start, end) == [Between |-> <<start, end>>]
In(vs) == [In |-> vs]
skip == [skip |-> TRUE]
Comparator(m, v) == [magic |-> m, value |-> v]
OtherOperation(tag) == [oper |-> tag]

Magics == {"__eq__", "__ne__", "__ge__", "__le__", "__gt__", "__lt__"}

IsBetween(v) == DOMAIN v = {"Between"}
IsIn(v) == DOMAIN v = {"In"}
IsSkip(v) == DOMAIN v = {"skip"}
HasPyMagic(v) == DOMAIN v = {"magic", "value"}
IsOperation(v) == IsBetween(v) \/ IsIn(v) \/ IsSkip(v) \/ HasPyMagic(v)
                     \/ DOMAIN v = {"oper"}

(***************************************************************************)
(* Table.to_sql_expressions: the conjunction, started from true(), of one  *)
(* clause per pair of the mapping; a skip contributes nothing and an       *)
(* Operation that is none of the known ones raises NotImplementedError.    *)
(* A conjunction is the set of its clauses; true() is the empty set.       *)
(***************************************************************************)
sql_true == {}

\* sql_oper with a Between that forgets its upper bound
sql_oper_half_between(column, v) ==
    IF IsOperation(v)
    THEN IF IsBetween(v)
         THEN [col |-> column, op |-> "__ge__", value |-> v.Between[1]]
         ELSE IF IsIn(v)
         THEN [col |-> column, op |-> "in", values |-> v.In]
         ELSE [col |-> column, op |-> v.magic, value |-> v.value]
    ELSE [col |-> column, op |-> "__eq__", value |-> v]

sql_oper(column, v) ==
    IF IsOperation(v)
    THEN IF IsBetween(v)
         THEN [col |-> column, op |-> "between", start |-> v.Between[1],
               end |-> v.Between[2]]
         ELSE IF IsIn(v)
         THEN [col |-> column, op |-> "in", values |-> v.In]
         ELSE [col |-> column, op |-> v.magic, value |-> v.value]
    ELSE [col |-> column, op |-> "__eq__", value |-> v]

NotImplemented(v) ==
    IsOperation(v) /\ ~IsBetween(v) /\ ~IsIn(v) /\ ~IsSkip(v) /\ ~HasPyMagic(v)

\* raise NotImplementedError(f"Not implemented operator: {oper}"): the error
\* names the Operation met, the one of the mapping that is not known.
NotImplementedError(qry) ==
    [error |-> "NotImplementedError",
     oper |-> qry[CHOOSE k \in DOMAIN qry : NotImplemented(qry[k])]]

\* to_sql_expressions returning the statement as it stands at a skip
to_sql_expressions_skip_returns(qry) ==
    IF \E k \in DOMAIN qry : NotImplemented(qry[k])
    THEN NotImplementedError(qry)
    ELSE IF \E k \in DOMAIN qry : IsSkip(qry[k]) THEN [where |-> sql_true]
    ELSE [where |-> {sql_oper(k, qry[k]) : k \in DOMAIN qry}]

\* to_sql_expressions taking an Operation it does not know for a skip
to_sql_expressions_unknown_skipped(qry) ==
    [where |-> {sql_oper(k, qry[k]) :
                   k \in {c \in DOMAIN qry : ~IsSkip(qry[c]) /\ ~NotImplemented(qry[c])}}]

to_sql_expressions(qry) ==
    IF \E k \in DOMAIN qry : NotImplemented(qry[k])
    THEN NotImplementedError(qry)
    ELSE [where |-> {sql_oper(k, qry[k]) : k \in {c \in DOMAIN qry : ~IsSkip(qry[c])}}]

IsError(r) == "error" \in DOMAIN r

(***************************************************************************)
(* ISO-8601 dates: datetime.date.fromisoformat and date.isoformat, over    *)
(* the strings of the model; any other string is no date.                  *)
(***************************************************************************)
fromisoformat(s) ==
    CASE s = "2000-01-01" -> PyDate(2000, 1, 1)
      [] s = "1990-01-01" -> PyDate(1990, 1, 1)
      [] OTHER -> [error |-> "ValueError"]

isoformat(d) ==
    CASE d = PyDate(2000, 1, 1) -> "2000-01-01"
      [] d = PyDate(1990, 1, 1) -> "1990-01-01"
      [] OTHER -> "0001-01-01"

(***************************************************************************)
(* to_native(value, sql_type, nullable): a cell of a result row converted  *)
(* to the Python type of its column.                                       *)
(***************************************************************************)
python_type(sql_type) ==
    CASE sql_type = "String" -> "str"
      [] sql_type = "Integer" -> "int"
      [] sql_type = "Date" -> "date"

construct(py_type, value) ==
    CASE py_type = "str" ->
            IF IsInt(value) THEN PyStr(ToString(value.int))
            ELSE IF IsDate(value) THEN PyStr(isoformat(value))
            ELSE PyStr("None")
      [] py_type = "int" ->
            IF IsStr(value) /\ \E n \in Scores : ToString(n) = value.str
            THEN PyInt(CHOOSE n \in Scores : ToString(n) = value.str)
            ELSE IF IsStr(value) THEN [error |-> "ValueError"]
            ELSE [error |-> "TypeError"]
      [] py_type = "date" -> [error |-> "TypeError"]

to_native(value, sql_type, nullable) ==
    LET py_type == python_type(sql_type) IN
    IF DOMAIN value = {py_type} THEN value
    ELSE IF py_type = "date" /\ IsStr(value) THEN fromisoformat(value.str)
    ELSE IF nullable /\ IsNone(value) THEN value
    ELSE construct(py_type, value)

(***************************************************************************)
(* The backend.  A database maps a table name to a table: its columns and  *)
(* its rows, each row a mapping from column name to the stored value (a    *)
(* date is stored as its ISO-8601 string).  A statement is run against a   *)
(* database and gives an error, or result rows and the database after it.  *)
(***************************************************************************)
TableNames == {"populated", "archive"}

NoTable == [exists |-> FALSE, cols |-> <<>>, rows |-> <<>>]

\* The bind processor of a parameter: a date is sent as its ISO string.
Bind(v) == IF IsDate(v) THEN PyStr(isoformat(v)) ELSE v

\* A value the driver has no binding for.
Unbindable(v) == DOMAIN v = {"set"} \/ DOMAIN v = {"slice"}

ClauseUnbindable(c) ==
    CASE c.op = "between" -> Unbindable(c.start) \/ Unbindable(c.end)
      [] c.op = "in" -> \E v \in c.values : Unbindable(v)
      [] c.op = "truthy" -> FALSE
      [] OTHER -> Unbindable(c.value)

\* SQL comparison of a stored cell; a comparison with NULL is never true.
Holds(c, row) ==
    LET cell == row[c.col] IN
    CASE c.op = "between" ->
            IsInt(cell) /\ c.start.int <= cell.int /\ cell.int <= c.end.int
      [] c.op = "in" -> \E v \in c.values : cell = Bind(v)
      [] c.op = "__eq__" ->
            IF IsNone(c.value) THEN IsNone(cell) ELSE cell = Bind(c.value)
      [] c.op = "__ne__" ->
            IF IsNone(c.value) THEN ~IsNone(cell)
            ELSE ~IsNone(cell) /\ cell # Bind(c.value)
      [] c.op = "__ge__" -> IsInt(cell) /\ cell.int >= c.value.int
      [] c.op = "__le__" -> IsInt(cell) /\ cell.int <= c.value.int
      [] c.op = "__gt__" -> IsInt(cell) /\ cell.int > c.value.int
      [] c.op = "__lt__" -> IsInt(cell) /\ cell.int < c.value.int
      [] c.op = "truthy" ->
            (IsInt(cell) /\ cell.int # 0) \/ (IsStr(cell) /\ cell.str \in IsoDates)

Matches(where, row) == \A c \in where : Holds(c, row)

RECURSIVE RowsWhere(_, _)
RowsWhere(rows, where) ==
    IF rows = <<>> THEN <<>>
    ELSE IF Matches(where, Head(rows))
         THEN <<Head(rows)>> \o RowsWhere(Tail(rows), where)
         ELSE RowsWhere(Tail(rows), where)

RECURSIVE RowsNotWhere(_, _)
RowsNotWhere(rows, where) ==
    IF rows = <<>> THEN <<>>
    ELSE IF Matches(where, Head(rows))
         THEN RowsNotWhere(Tail(rows), where)
         ELSE <<Head(rows)>> \o RowsNotWhere(Tail(rows), where)

WhereError(tbl, where) ==
    IF \E c \in where : c.col \notin ColNames(tbl.cols) THEN "OperationalError"
    ELSE IF \E c \in where : ClauseUnbindable(c) THEN "DBAPIError"
    ELSE "ok"

\* The result processor of a column type: a Date column gives a date.
ResultProcessor(sql_type, cell) ==
    IF sql_type = "Date" /\ IsStr(cell) THEN fromisoformat(cell.str) ELSE cell

\* The row a typed select gives: the projected columns, each processed.
TypedRow(cols, projected, row) ==
    [n \in projected |-> ResultProcessor(ColOf(cols, n).type, row[n])]

StoredRow(tbl, values) ==
    [n \in ColNames(tbl.cols) |->
        IF n \in DOMAIN values THEN Bind(values[n]) ELSE NoneVal]

UpdatedRow(row, values) ==
    [n \in DOMAIN row |-> IF n \in DOMAIN values THEN Bind(values[n]) ELSE row[n]]

MapSeq(s, Op(_)) == [i \in 1..Len(s) |-> Op(s[i])]

Run(d, stmt) ==
    LET tbl == d[stmt.table] IN
    IF stmt.kind = "create"
    THEN IF tbl.exists THEN [error |-> "OperationalError"]
         ELSE [rows |-> <<>>,
               db |-> [d EXCEPT ![stmt.table] =
                          [exists |-> TRUE, cols |-> stmt.cols, rows |-> <<>>]]]
    ELSE IF ~tbl.exists THEN [error |-> "OperationalError"]
    ELSE IF stmt.kind = "insert"
    THEN IF ~(DOMAIN stmt.values \subseteq ColNames(tbl.cols))
         THEN [error |-> "CompileError"]
         ELSE [rows |-> <<>>,
               db |-> [d EXCEPT ![stmt.table].rows =
                          Append(@, StoredRow(tbl, stmt.values))]]
    ELSE IF WhereError(tbl, stmt.where) # "ok"
    THEN [error |-> WhereError(tbl, stmt.where)]
    ELSE CASE stmt.kind = "select" ->
                [rows |-> MapSeq(RowsWhere(tbl.rows, stmt.where),
                                 LAMBDA r : TypedRow(stmt.cols, stmt.projected, r)),
                 db |-> d]
           [] stmt.kind = "text" ->
                [rows |-> RowsWhere(tbl.rows, stmt.where), db |-> d]
           [] stmt.kind = "count" ->
                [rows |-> <<PyInt(Len(RowsWhere(tbl.rows, stmt.where)))>>, db |-> d]
           [] stmt.kind = "delete" ->
                [rows |-> <<>>,
                 db |-> [d EXCEPT ![stmt.table].rows = RowsNotWhere(@, stmt.where)]]
           [] stmt.kind = "update" ->
                [rows |-> <<>>,
                 db |-> [d EXCEPT ![stmt.table].rows =
                            MapSeq(@, LAMBDA r : IF Matches(stmt.where, r)
                                                 THEN UpdatedRow(r, stmt.values)
                                                 ELSE r)]]

IsWrite(stmt) == stmt.kind \in {"create", "insert", "delete", "update"}

(***************************************************************************)
(* The state.                                                              *)
(*   db         the committed content of the database                      *)
(*   acc        the Table objects: 0 is the one built by __init__, i > 0   *)
(*              the copy made by the i-th transaction scope; each has its  *)
(*              engine (the Engine, or connection i), _name, _object and   *)
(*              _ctx (-1: no such attribute, 0: None, i: the i-th          *)
(*              _trans_ctx)                                                *)
(*   conns      connection i, begun by the i-th _trans_ctx: unused, open   *)
(*              or closed, and its transaction (root: the one              *)
(*              Engine.begin() began, auto: one begun by a later           *)
(*              statement, none)                                           *)
(*   pending    the connection holding uncommitted writes (0: none) and    *)
(*              the database as that connection sees it                    *)
(*   nextHandle the identity of the next sqlalchemy.Table object           *)
(*   autobegin  the toolkit's generation: whether a statement on a         *)
(*              connection without a transaction begins one (2.0) or is    *)
(*              committed at once (1.4)                                    *)
(*   call, ret  the last call made and what it returned or raised          *)
(*   prev       db, acc, conns, pending and nextHandle as they were when   *)
(*              the last call was made                                     *)
(***************************************************************************)
VARIABLES db, acc, conns, pending, nextHandle, autobegin, call, ret, prev

vars == <<db, acc, conns, pending, nextHandle, autobegin, call, ret, prev>>

Orig == 0
AccIds == 0..MaxConns
ConnIds == 1..MaxConns

Engine == [engine |-> TRUE]
Connection(i) == [conn |-> i]
IsEngine(e) == DOMAIN e = {"engine"}

NoAcc == [alive |-> FALSE, engine |-> Engine, _name |-> NoneVal,
          _object |-> NoneVal, _ctx |-> -1]

NoConn == [state |-> "unused", trans |-> "none"]

NoPending == [holder |-> 0, db |-> <<>>]

\* Table.__init__: the engine is kept and the name setter run.
NewTable(table, engine) ==
    [alive |-> TRUE, engine |-> engine, _name |-> table, _object |-> NoneVal,
     _ctx |-> -1]

World == [db |-> db, acc |-> acc, conns |-> conns, pending |-> pending,
          nextHandle |-> nextHandle]

\* What a statement run through an engine or a connection sees.
View(w, e) ==
    IF ~IsEngine(e) /\ w.pending.holder = e.conn THEN w.pending.db ELSE w.db

\* Table.name (getter)
name(t) == IF ~IsNone(t._object) THEN t._object.name ELSE t._name

(***************************************************************************)
(* The methods of Table as steps on the world w (db, acc, conns, pending,  *)
(* nextHandle): each gives the world after it and its result, which is     *)
(* [error |-> e] when it raises e.                                         *)
(***************************************************************************)
Raise(w, e) == [w |-> w, res |-> [error |-> e]]

\* A statement reaching connection i: under autobegin it begins a
\* transaction when none is open.
Begun(c) == [c EXCEPT !.trans = IF @ = "none" /\ autobegin THEN "auto" ELSE @]

\* execute leaving the statement of an engine-bound Table uncommitted
execute_uncommitted(w, a, stmt) ==
    LET conn == w.acc[a].engine IN
    IF IsEngine(conn) \/ (w.conns[conn.conn].state = "open"
                          /\ w.conns[conn.conn].trans = "none" /\ ~autobegin)
    THEN \* a transaction of its own, committed when the statement succeeds
         LET r == Run(w.db, stmt) IN
         IF IsWrite(stmt) /\ w.pending.holder # 0 THEN Raise(w, "OperationalError")
         ELSE IF IsError(r) THEN [w |-> w, res |-> r]
         ELSE [w |-> w, res |-> [rows |-> r.rows]]
    ELSE LET i == conn.conn
             w1 == [w EXCEPT !.conns[i] = Begun(@)]
             r == Run(View(w, conn), stmt)
         IN  IF w.conns[i].state # "open" THEN Raise(w, "ResourceClosedError")
             ELSE IF IsWrite(stmt) /\ w.pending.holder \notin {0, i}
             THEN Raise(w1, "OperationalError")
             ELSE IF IsError(r) THEN [w |-> w1, res |-> r]
             ELSE [w |-> IF IsWrite(stmt)
                         THEN [w1 EXCEPT !.pending = [holder |-> i, db |-> r.db]]
                         ELSE w1,
                   res |-> [rows |-> r.rows]]

\* Table.execute
execute(w, a, stmt) ==
    LET conn == w.acc[a].engine IN
    IF IsEngine(conn) \/ (w.conns[conn.conn].state = "open"
                          /\ w.conns[conn.conn].trans = "none" /\ ~autobegin)
    THEN \* a transaction of its own, committed when the statement succeeds
         LET r == Run(w.db, stmt) IN
         IF IsWrite(stmt) /\ w.pending.holder # 0 THEN Raise(w, "OperationalError")
         ELSE IF IsError(r) THEN [w |-> w, res |-> r]
         ELSE [w |-> [w EXCEPT !.db = r.db], res |-> [rows |-> r.rows]]
    ELSE LET i == conn.conn
             w1 == [w EXCEPT !.conns[i] = Begun(@)]
             r == Run(View(w, conn), stmt)
         IN  IF w.conns[i].state # "open" THEN Raise(w, "ResourceClosedError")
             ELSE IF IsWrite(stmt) /\ w.pending.holder \notin {0, i}
             THEN Raise(w1, "OperationalError")
             ELSE IF IsError(r) THEN [w |-> w1, res |-> r]
             ELSE [w |-> IF IsWrite(stmt)
                         THEN [w1 EXCEPT !.pending = [holder |-> i, db |-> r.db]]
                         ELSE w1,
                   res |-> [rows |-> r.rows]]

\* Table.reflect, with reflect_table
reflect(w, a) ==
    LET t == w.acc[a]
        n == name(t)
        e == t.engine
    IN  IF ~IsEngine(e) /\ w.conns[e.conn].state # "open"
        THEN Raise(w, "ResourceClosedError")
        ELSE IF IsNone(n) \/ ~View(w, e)[n.str].exists
        THEN Raise(IF IsEngine(e) THEN w
                   ELSE [w EXCEPT !.conns[e.conn] = Begun(@)], "NoSuchTableError")
        ELSE LET tbl == [id |-> w.nextHandle, name |-> n,
                         cols |-> View(w, e)[n.str].cols]
                 w1 == [w EXCEPT !.acc[a]._object = tbl, !.nextHandle = @ + 1]
             IN  [w |-> IF IsEngine(e) THEN w1
                        ELSE [w1 EXCEPT !.conns[e.conn] = Begun(@)],
                  res |-> tbl]

\* object reflecting at every access
object_uncached(w, a) == reflect(w, a)

\* Table.object (getter): reflects when no handle is held yet
object(w, a) ==
    IF IsNone(w.acc[a]._object) THEN reflect(w, a)
    ELSE [w |-> w, res |-> w.acc[a]._object]

\* _format_results yielding the rows as the backend gave them
_format_results_unconverted(w, a, rows) ==
    LET o == object(w, a) IN
    IF IsError(o.res) THEN o ELSE [w |-> o.w, res |-> [rows |-> rows]]

\* Table._format_results with Table._get_types, iterated to the end
_format_results(w, a, rows) ==
    LET o == object(w, a) IN
    IF IsError(o.res) THEN o
    ELSE LET cols == o.res.cols
             out == [i \in 1..Len(rows) |->
                        [n \in ColNames(cols) |->
                            IF n \in DOMAIN rows[i]
                            THEN to_native(rows[i][n], ColOf(cols, n).type,
                                           ColOf(cols, n).nullable)
                            ELSE [error |-> "KeyError"]]]
             bad == {out[i][n] : i \in 1..Len(rows), n \in ColNames(cols)}
         IN  IF \E v \in bad : IsError(v)
             THEN Raise(o.w, (CHOOSE v \in bad : IsError(v)).error)
             ELSE [w |-> o.w, res |-> [rows |-> out]]

\* The statement Table.select builds from a where clause and a column list.
select_statement(w, a, where, columns) ==
    LET o == object(w, a) IN
    IF IsError(o.res) THEN o
    ELSE LET tbl == o.res
             stmt == [kind |-> "select", table |-> tbl.name.str, cols |-> tbl.cols,
                      projected |-> ColNames(tbl.cols), where |-> where]
         IN  IF IsNone(columns) \/ columns.list = <<>> THEN [w |-> o.w, res |-> stmt]
             ELSE IF \E i \in 1..Len(columns.list) :
                        columns.list[i] \notin ColNames(tbl.cols)
             THEN Raise(o.w, "KeyError")
             ELSE IF autobegin \/ Len(columns.list) > 1
             THEN \* Table.select() takes no column (2.0), or one where clause (1.4)
                  Raise(o.w, "TypeError")
             ELSE [w |-> o.w,
                   res |-> [stmt EXCEPT !.where =
                               @ \cup {[col |-> columns.list[1], op |-> "truthy"]}]]

\* Table.select
select(w, a, qry, columns) ==
    LET translated ==
            IF "dict" \in DOMAIN qry THEN to_sql_expressions(qry.dict)
            ELSE IF "expr" \in DOMAIN qry THEN [where |-> qry.expr]
            ELSE IF "str" \in DOMAIN qry THEN [text |-> qry.str]
            ELSE [where |-> sql_true]
    IN  IF IsError(translated) THEN [w |-> w, res |-> translated]
        ELSE LET built ==
                     IF "text" \in DOMAIN translated
                     THEN [w |-> w,
                           res |-> [kind |-> "text", table |-> translated.text.from,
                                    where |-> translated.text.where]]
                     ELSE select_statement(w, a, translated.where, columns)
             IN  IF IsError(built.res) THEN built
                 ELSE LET ran == execute(built.w, a, built.res) IN
                      IF IsError(ran.res) THEN ran
                      ELSE IF ~IsNone(name(ran.w.acc[a]))
                      THEN _format_results(ran.w, a, ran.res.rows)
                      ELSE ran

\* The where clause of delete, update and count: a mapping is translated,
\* an expression is used as it is.
where_clause(where) ==
    IF "dict" \in DOMAIN where THEN to_sql_expressions(where.dict)
    ELSE IF "expr" \in DOMAIN where THEN [where |-> where.expr]
    ELSE [where |-> sql_true]

\* Table.insert
insert(w, a, data) ==
    LET o == object(w, a) IN
    IF IsError(o.res) THEN o
    ELSE execute(o.w, a, [kind |-> "insert", table |-> o.res.name.str,
                          values |-> data])

\* Table.delete
delete(w, a, where) ==
    LET translated == where_clause(where) IN
    IF IsError(translated) THEN [w |-> w, res |-> translated]
    ELSE LET o == object(w, a) IN
         IF IsError(o.res) THEN o
         ELSE execute(o.w, a, [kind |-> "delete", table |-> o.res.name.str,
                               where |-> translated.where])

\* Table.update
update(w, a, where, values) ==
    LET translated == where_clause(where) IN
    IF IsError(translated) THEN [w |-> w, res |-> translated]
    ELSE LET o == object(w, a) IN
         IF IsError(o.res) THEN o
         ELSE execute(o.w, a, [kind |-> "update", table |-> o.res.name.str,
                               where |-> translated.where, values |-> values])

\* count leaving the where clause out of its statement
count_all(w, a, where) ==
    LET o == object(w, a) IN
    IF IsError(o.res) THEN o
    ELSE LET translated == where_clause(where) IN
         IF IsError(translated) THEN [w |-> o.w, res |-> translated]
         ELSE LET ran == execute(o.w, a, [kind |-> "count",
                                          table |-> o.res.name.str,
                                          where |-> sql_true])
              IN  IF IsError(ran.res) THEN ran
                  ELSE [w |-> ran.w, res |-> [value |-> ran.res.rows[1]]]

\* Table.count
count(w, a, where) ==
    LET o == object(w, a) IN
    IF IsError(o.res) THEN o
    ELSE LET translated == where_clause(where) IN
         IF IsError(translated) THEN [w |-> o.w, res |-> translated]
         ELSE LET ran == execute(o.w, a, [kind |-> "count",
                                          table |-> o.res.name.str,
                                          where |-> translated.where])
              IN  IF IsError(ran.res) THEN ran
                  ELSE [w |-> ran.w, res |-> [value |-> ran.res.rows[1]]]

\* Table._to_sqlalchemy_type, for the plain native types
_to_sqlalchemy_type(cls) == types[cls]

\* Table.create, from a mapping of column names to native types
create(w, a, columns) ==
    LET n == name(w.acc[a])
        cols == [i \in 1..Len(columns) |->
                    Col(columns[i][1], _to_sqlalchemy_type(columns[i][2]))]
    IN  IF IsNone(n) THEN Raise(w, "ArgumentError")
        ELSE LET ran == execute(w, a, [kind |-> "create", table |-> n.str,
                                       cols |-> cols])
                 tbl == [id |-> ran.w.nextHandle, name |-> n, cols |-> cols]
             IN  IF IsError(ran.res) THEN ran
                 ELSE [w |-> [ran.w EXCEPT !.acc[a]._object = tbl,
                                           !.nextHandle = @ + 1],
                       res |-> NoneVal]

\* Table.name (setter)
set_name(w, a, value) ==
    [w |-> [w EXCEPT !.acc[a]._name = value, !.acc[a]._object = NoneVal],
     res |-> NoneVal]

\* Table.object (setter), given a sqlalchemy.Table the caller has built
set_object(w, a, n, cols) ==
    LET value == [id |-> w.nextHandle, name |-> n, cols |-> cols] IN
    [w |-> [w EXCEPT !.acc[a]._object = value, !.acc[a]._name = value.name,
                     !.nextHandle = @ + 1],
     res |-> NoneVal]

(***************************************************************************)
(* The transaction scope.  Table.__enter__ and Table.open_transaction put  *)
(* a new _trans_ctx in self._ctx and enter it: _trans_ctx.__enter__ copies *)
(* the table, clears the copy's _ctx, begins a transaction on a new        *)
(* connection of the engine and binds the copy to that connection.  The    *)
(* i-th _trans_ctx holds the context manager of connection i.              *)
(***************************************************************************)
FreeConn(w) == CHOOSE i \in ConnIds :
                  /\ w.conns[i].state = "unused"
                  /\ \A j \in ConnIds : j < i => w.conns[j].state # "unused"

\* _trans_ctx.__enter__ binding the table itself, not a copy of it
_trans_ctx__enter__no_copy(w, a, i) ==
    LET new_table == [w.acc[a] EXCEPT !._ctx = 0, !.engine = Connection(i)] IN
    [w |-> [w EXCEPT !.acc[i] = new_table, !.acc[a] = new_table,
                     !.conns[i] = [state |-> "open", trans |-> "root"]],
     res |-> [table |-> i]]

_trans_ctx__enter__(w, a, i) ==
    LET new_table == [w.acc[a] EXCEPT !._ctx = 0, !.engine = Connection(i)] IN
    [w |-> [w EXCEPT !.acc[i] = new_table,
                     !.conns[i] = [state |-> "open", trans |-> "root"]],
     res |-> [table |-> i]]

__enter__(w, a) ==
    LET i == FreeConn(w) IN
    _trans_ctx__enter__([w EXCEPT !.acc[a]._ctx = i], a, i)

open_transaction(w, a) ==
    LET i == FreeConn(w) IN
    _trans_ctx__enter__([w EXCEPT !.acc[a]._ctx = i], a, i)

\* The exit of the context manager Engine.begin() gave for connection i:
\* the root transaction, when still active, is committed if no error came
\* and rolled back otherwise; then the connection is closed, which rolls
\* back whatever it still holds.
engine_begin__exit__(w, i, type_) ==
    IF w.conns[i].state # "open" THEN w
    ELSE [w EXCEPT !.db = IF IsNone(type_) /\ w.conns[i].trans = "root"
                             /\ w.pending.holder = i
                          THEN w.pending.db ELSE @,
                   !.pending = IF w.pending.holder = i THEN NoPending ELSE @,
                   !.conns[i] = [state |-> "closed", trans |-> "none"]]

\* __exit__ releasing nothing
__exit__forgotten(w, a, type_) ==
    IF w.acc[a]._ctx < 1 THEN Raise(w, "AttributeError")
    ELSE [w |-> w, res |-> NoneVal]

\* __exit__ not passing the error on to the context manager
__exit__without_error(w, a, type_) ==
    IF w.acc[a]._ctx < 1 THEN Raise(w, "AttributeError")
    ELSE [w |-> engine_begin__exit__(w, w.acc[a]._ctx, NoneVal), res |-> NoneVal]

\* Table.__exit__, with _trans_ctx.__exit__
__exit__(w, a, type_) ==
    IF w.acc[a]._ctx < 1 THEN Raise(w, "AttributeError")
    ELSE [w |-> engine_begin__exit__(w, w.acc[a]._ctx, type_), res |-> NoneVal]

\* Connection.get_transaction(): the transaction in progress, or None
get_transaction(w, conn) ==
    IF w.conns[conn.conn].trans = "none" THEN NoneVal ELSE [transaction |-> conn.conn]

\* commit doing nothing when no transaction is open
commit_silent(w, a) ==
    LET conn == w.acc[a].engine IN
    IF IsEngine(conn) \/ IsNone(get_transaction(w, conn))
    THEN [w |-> w, res |-> NoneVal]
    ELSE LET i == conn.conn IN
         [w |-> [w EXCEPT !.db = IF w.pending.holder = i THEN w.pending.db ELSE @,
                          !.pending = IF w.pending.holder = i THEN NoPending ELSE @,
                          !.conns[i].trans = "none"],
          res |-> NoneVal]

\* Table.commit
commit(w, a) ==
    LET conn == w.acc[a].engine IN
    IF IsEngine(conn) THEN Raise(w, "AttributeError")
    ELSE IF IsNone(get_transaction(w, conn)) THEN Raise(w, "AttributeError")
    ELSE LET i == conn.conn IN
         [w |-> [w EXCEPT !.db = IF w.pending.holder = i THEN w.pending.db ELSE @,
                          !.pending = IF w.pending.holder = i THEN NoPending ELSE @,
                          !.conns[i].trans = "none"],
          res |-> NoneVal]

\* Table.rollback
rollback(w, a) ==
    LET conn == w.acc[a].engine IN
    IF IsEngine(conn) THEN Raise(w, "AttributeError")
    ELSE IF IsNone(get_transaction(w, conn)) THEN Raise(w, "AttributeError")
    ELSE LET i == conn.conn IN
         [w |-> [w EXCEPT !.pending = IF w.pending.holder = i THEN NoPending ELSE @,
                          !.conns[i].trans = "none"],
          res |-> NoneVal]

(***************************************************************************)
(* The actions: one per method of Table.  A call is made on a Table that   *)
(* exists; it is recorded in call, and what it returned or raised in ret.  *)
(* The bounds cap the rows of a table and the schema handles built.        *)
(***************************************************************************)
Bounded(w) ==
    /\ w.nextHandle <= MaxHandles + 1
    /\ \A n \in TableNames :
          /\ Len(w.db[n].rows) <= MaxRows
          /\ w.pending.holder # 0 => Len(w.pending.db[n].rows) <= MaxRows

Step(r, c) ==
    /\ Bounded(r.w)
    /\ db' = r.w.db
    /\ acc' = r.w.acc
    /\ conns' = r.w.conns
    /\ pending' = r.w.pending
    /\ nextHandle' = r.w.nextHandle
    /\ ret' = r.res
    /\ call' = c
    /\ prev' = World
    /\ UNCHANGED autobegin

Select(a, qry, columns) ==
    /\ acc[a].alive
    /\ Step(select(World, a, qry, columns),
            [op |-> "select", acc |-> a, qry |-> qry, columns |-> columns])

Insert(a, data) ==
    /\ acc[a].alive
    /\ Step(insert(World, a, data), [op |-> "insert", acc |-> a, data |-> data])

Delete(a, where) ==
    /\ acc[a].alive
    /\ Step(delete(World, a, where), [op |-> "delete", acc |-> a, where |-> where])

Update(a, where, values) ==
    /\ acc[a].alive
    /\ Step(update(World, a, where, values),
            [op |-> "update", acc |-> a, where |-> where, values |-> values])

Count(a, where) ==
    /\ acc[a].alive
    /\ Step(count(World, a, where), [op |-> "count", acc |-> a, where |-> where])

Reflect(a) ==
    /\ acc[a].alive
    /\ LET r == reflect(World, a) IN
       Step([w |-> r.w, res |-> IF IsError(r.res) THEN r.res ELSE NoneVal],
            [op |-> "reflect", acc |-> a])

Create(a, columns) ==
    /\ acc[a].alive
    /\ Step(create(World, a, columns),
            [op |-> "create", acc |-> a, columns |-> columns])

SetName(a, value) ==
    /\ acc[a].alive
    /\ Step(set_name(World, a, value), [op |-> "name", acc |-> a, value |-> value])

SetObject(a, n, cols) ==
    /\ acc[a].alive
    /\ Step(set_object(World, a, n, cols),
            [op |-> "object", acc |-> a, name |-> n, cols |-> cols])

\* A scope is opened on a Table bound to the engine, while a connection is left.
CanOpen(a) ==
    /\ acc[a].alive
    /\ IsEngine(acc[a].engine)
    /\ \E i \in ConnIds : conns[i].state = "unused"

Enter(a) ==
    /\ CanOpen(a)
    /\ Step(__enter__(World, a), [op |-> "__enter__", acc |-> a])

OpenTransaction(a) ==
    /\ CanOpen(a)
    /\ Step(open_transaction(World, a), [op |-> "open_transaction", acc |-> a])

Exit(a, type_) ==
    /\ acc[a].alive
    /\ Step(__exit__(World, a, type_), [op |-> "__exit__", acc |-> a, type_ |-> type_])

Commit(a) ==
    /\ acc[a].alive
    /\ Step(commit(World, a), [op |-> "commit", acc |-> a])

Rollback(a) ==
    /\ acc[a].alive
    /\ Step(rollback(World, a), [op |-> "rollback", acc |-> a])

(***************************************************************************)
(* The state after construction: Table(table="populated", engine=engine)   *)
(* on a database holding the table populated, with the given rows.         *)
(***************************************************************************)
Populated(rows) ==
    [n \in TableNames |->
        IF n = "populated"
        THEN [exists |-> TRUE, cols |-> PopulatedColumns, rows |-> rows]
        ELSE NoTable]

InitWith(rows) ==
    /\ db = Populated(rows)
    /\ acc = [a \in AccIds |-> IF a = Orig THEN NewTable(PyStr("populated"), Engine)
                                ELSE NoAcc]
    /\ conns = [i \in ConnIds |-> NoConn]
    /\ pending = NoPending
    /\ nextHandle = 1
    /\ autobegin \in BOOLEAN
    /\ call = [op |-> "init"]
    /\ ret = NoneVal
    /\ prev = World

\* The rows of the fixture: a name, the birth date that goes with it, a score.
BirthDate(n) == IF n = "Jack" THEN PyDate(2000, 1, 1) ELSE PyDate(1990, 1, 1)

Person(n, k) == [name |-> PyStr(n), birth_date |-> BirthDate(n), score |-> PyInt(k)]

Stored(data) == [c \in DOMAIN data |-> Bind(data[c])]

(***************************************************************************)
(* SpecTx: transaction scopes.  Scopes are opened on the original Table;   *)
(* every Table, the original and the copies, inserts, deletes,             *)
(* commits, rolls back and exits, with or without an error.                *)
(***************************************************************************)
TxRows == {Person("Jack", 1)}
TxWheres == {[dict |-> [name |-> PyStr("Jack")]]}
ErrorTypes == {NoneVal, PyStr("ValueError"), PyStr("KeyboardInterrupt")}

InitTx == InitWith(<<>>)

ScopesOpened == Cardinality({i \in ConnIds : conns[i].state # "unused"})

NextTx ==
    \/ ScopesOpened < MaxScopes /\ Enter(Orig)
    \/ ScopesOpened < MaxScopes /\ OpenTransaction(Orig)
    \/ \E a \in AccIds, t \in ErrorTypes : Exit(a, t)
    \/ \E a \in AccIds : Commit(a)
    \/ \E a \in AccIds : Rollback(a)
    \/ \E a \in AccIds, d \in TxRows : Insert(a, d)
    \/ \E a \in AccIds, wh \in TxWheres : Delete(a, wh)

SpecTx == InitTx /\ [][NextTx]_vars

\* The last call was __exit__ on a Table whose _ctx held the scope of the
\* open connection i.
Exited(i) ==
    /\ call.op = "__exit__"
    /\ prev.acc[call.acc]._ctx = i
    /\ prev.conns[i].state = "open"

\* C1 as claimed: a normal exit of a transaction scope commits nothing; the
\* committed content of the database is what it was before the exit.
C1_NormalExitCommitsNothing ==
    (call.op = "__exit__" /\ IsNone(call.type_)) => db = prev.db

\* C1, amended: when a scope exits normally and neither commit() nor
\* rollback() was called in it (its root transaction is still active), the
\* exit itself commits: the database as the scoped accessor saw it becomes
\* the committed content, and the connection is closed.
C1_NormalExitCommits ==
    \A i \in ConnIds :
        (Exited(i) /\ IsNone(call.type_) /\ prev.conns[i].trans = "root") =>
            /\ db = View(prev, Connection(i))
            /\ pending.holder # i
            /\ conns[i] = [state |-> "closed", trans |-> "none"]

\* A normal exit made durable the writes pending in the scope.
C1_Witness ==
    \E i \in ConnIds :
        /\ Exited(i) /\ IsNone(call.type_)
        /\ prev.conns[i].trans = "root"
        /\ prev.pending.holder = i
        /\ db = prev.pending.db
        /\ db # prev.db

NoOpenTransaction(a) ==
    \/ IsEngine(prev.acc[a].engine)
    \/ prev.conns[prev.acc[a].engine.conn].trans = "none"

Untouched ==
    /\ db = prev.db
    /\ acc = prev.acc
    /\ conns = prev.conns
    /\ pending = prev.pending

\* C3 as claimed: commit() or rollback() without an open transaction fails
\* with NoActiveTransactionError and changes nothing.
C3_NoActiveTransactionError ==
    (call.op \in {"commit", "rollback"} /\ NoOpenTransaction(call.acc)) =>
        (ret = [error |-> "NoActiveTransactionError"] /\ Untouched)

\* C3, amended: commit() or rollback() on a Table with no open transaction
\* (bound to the engine, or to a connection whose transaction was committed,
\* rolled back or closed) fails with AttributeError, and changes neither the
\* table contents nor the state of any Table.
C3_FailsWithAttributeError ==
    (call.op \in {"commit", "rollback"} /\ NoOpenTransaction(call.acc)) =>
        (ret = [error |-> "AttributeError"] /\ Untouched)

\* commit() failed on a scoped accessor whose transaction was over, while
\* rows were in the table.
C3_Witness ==
    /\ call.op = "commit"
    /\ call.acc # Orig
    /\ NoOpenTransaction(call.acc)
    /\ IsError(ret)
    /\ db["populated"].rows # <<>>

\* C5: open_transaction() returns a copy with the name and the schema handle
\* of the original, bound to the connection of the transaction just begun;
\* the engine, name and schema handle of the original are unchanged, and
\* the original stays bound to the engine ever after.
C5_OpenTransactionClones ==
    /\ IsEngine(acc[Orig].engine)
    /\ call.op = "open_transaction" =>
          LET a == call.acc
              i == ret.table
          IN  /\ acc[i].alive
              /\ name(acc[i]) = name(prev.acc[a])
              /\ acc[i]._object = prev.acc[a]._object
              /\ acc[i].engine = Connection(i)
              /\ prev.conns[i].state = "unused"
              /\ conns[i] = [state |-> "open", trans |-> "root"]
              /\ acc[a].engine = prev.acc[a].engine
              /\ acc[a]._name = prev.acc[a]._name
              /\ acc[a]._object = prev.acc[a]._object

\* open_transaction() copied a Table that held a schema handle.
C5_Witness ==
    /\ call.op = "open_transaction"
    /\ ~IsNone(prev.acc[call.acc]._object)
    /\ acc[ret.table]._object = prev.acc[call.acc]._object


(***************************************************************************)
(* SpecSchema: the schema handle of one Table, over create, reflect, the   *)
(* name and object setters and the operations that need the schema.        *)
(***************************************************************************)
CreateColumns == <<<<"name", "str">>, <<"birth_date", "date">>, <<"score", "int">>>>

InitSchema == InitWith(<<Stored(Person("John", 1))>>)

NextSchema ==
    \/ Reflect(Orig)
    \/ Create(Orig, CreateColumns)
    \/ \E n \in TableNames : SetName(Orig, PyStr(n))
    \/ \E n \in TableNames : SetObject(Orig, PyStr(n), PopulatedColumns)
    \/ Select(Orig, [none |-> TRUE], NoneVal)
    \/ Insert(Orig, Person("Jack", 1))
    \/ Update(Orig, [dict |-> [name |-> PyStr("Jack")]], [score |-> PyInt(1)])
    \/ Delete(Orig, [dict |-> [name |-> PyStr("Jack")]])
    \/ Count(Orig, [none |-> TRUE])

SpecSchema == InitSchema /\ [][NextSchema]_vars

Unresolved(t) == IsNone(t._object)
Resolved(t) == ~IsNone(t._object)

SchemaUsers == {"select", "insert", "update", "delete", "count"}

\* The parts of the state machine that do not depend on how a handle comes:
\* a Table starts Unresolved, a Resolved handle stays the same object across
\* select, insert, update, delete and count, and only the name setter takes
\* a Table back to Unresolved.
HandleKept ==
    /\ call.op = "init" => Unresolved(acc[Orig])
    /\ call.op # "init" =>
          LET before == prev.acc[call.acc]
              after == acc[call.acc]
          IN  /\ (Resolved(before) /\ call.op \in SchemaUsers) =>
                    after._object = before._object
              /\ (Resolved(before) /\ Unresolved(after)) => call.op = "name"
              /\ call.op = "name" => Unresolved(after)

\* The calls after which a Table that was Unresolved, or held another
\* handle, holds a new handle.
ResolvedOnlyBy(ops) ==
    call.op # "init" =>
        LET before == prev.acc[call.acc]
            after == acc[call.acc]
        IN  (Resolved(after) /\ after._object # before._object) =>
                /\ call.op \in ops
                /\ after._object.id = prev.nextHandle
                /\ after._object.name = name(after)

\* C4 as claimed: the handle starts Unresolved, becomes Resolved only through
\* create or reflect (called, or triggered by an operation that needs the
\* schema), stays the same handle across select, insert, update, delete and
\* count, and goes back to Unresolved only when the name is reassigned.
C4_OnlyCreateOrReflect ==
    HandleKept /\ ResolvedOnlyBy({"create", "reflect"} \cup SchemaUsers)

\* C4, amended: as claimed, but a handle also comes by assigning a table
\* object to the object property, which makes the Table Resolved as create
\* and reflect do.
C4_SchemaHandleStateMachine ==
    HandleKept /\ ResolvedOnlyBy({"create", "reflect", "object"} \cup SchemaUsers)

\* A select on a Table that was renamed and resolved again kept its handle.
C4_Witness ==
    /\ call.op = "select"
    /\ ~IsError(ret)
    /\ Resolved(prev.acc[Orig])
    /\ prev.acc[Orig]._object.id > 1
    /\ acc[Orig]._object = prev.acc[Orig]._object


(***************************************************************************)
(* SpecQuery: one call of select, count, update or delete on a Table whose *)
(* rows Init draws: up to MaxRows rows of the fixture's shape.             *)
(***************************************************************************)
Persons == {Person(n, k) : n \in Names, k \in Scores}

QueryRows == {Stored(p) : p \in Persons}

QueryTables == UNION {[1..m -> QueryRows] : m \in 0..MaxRows}

NameValues ==
    {PyStr(n) : n \in Names}
        \cup {In({PyStr("Jack"), PyStr("John")}), In({PyStr("Jack")}), skip,
              PySet({PyStr("Jack"), PyStr("John")}), OtherOperation("regex")}

ScoreValues ==
    {PyInt(k) : k \in Scores}
        \cup {Between(PyInt(lo), PyInt(hi)) : lo \in Scores, hi \in Scores}
        \cup {In({PyInt(1), PyInt(MaxScore)}), skip,
              PySlice(PyInt(1), PyInt(MaxScore))}
        \cup {Comparator(m, PyInt(k)) : m \in Magics, k \in Scores}

EmptyDict == <<>>

Filters ==
    {EmptyDict}
        \cup {[name |-> v] : v \in NameValues}
        \cup {[score |-> u] : u \in ScoreValues}
        \cup {[name |-> v, score |-> u] : v \in NameValues, u \in ScoreValues}
        \cup {[name |-> PyStr(n), birth_date |-> BirthDate(m)] : n \in Names, m \in Names}

\* One logical condition, and the forms a caller can give it in: raw SQL
\* text, a native mapping, a SQLAlchemy expression, a mapping of Operations.
Conditions ==
    {[kind |-> "equal", col |-> "name", value |-> PyStr(n)] : n \in Names}
        \cup {[kind |-> "in", col |-> "name", values |-> vs] :
                 vs \in {{PyStr("Jack"), PyStr("John")}, {PyStr("John")}}}
        \cup {[kind |-> "range", col |-> "score", start |-> PyInt(lo), end |-> PyInt(hi)] :
                 lo \in Scores, hi \in Scores}

Hows == {"raw string", "native", "expression", "operation"}

\* What the SQL text, or the SQLAlchemy expression, of a condition denotes.
Clause(c) ==
    CASE c.kind = "equal" -> [col |-> c.col, op |-> "__eq__", value |-> c.value]
      [] c.kind = "in" -> [col |-> c.col, op |-> "in", values |-> c.values]
      [] c.kind = "range" -> [col |-> c.col, op |-> "between", start |-> c.start,
                              end |-> c.end]

Form(c, how) ==
    CASE how = "raw string" -> [str |-> [from |-> "populated", where |-> {Clause(c)}]]
      [] how = "expression" -> [expr |-> {Clause(c)}]
      [] how = "native" ->
            [dict |-> c.col :> (CASE c.kind = "equal" -> c.value
                                  [] c.kind = "in" -> PySet(c.values)
                                  [] c.kind = "range" -> PySlice(c.start, c.end))]
      [] how = "operation" ->
            [dict |-> c.col :> (CASE c.kind = "equal" -> Comparator("__eq__", c.value)
                                  [] c.kind = "in" -> In(c.values)
                                  [] c.kind = "range" -> Between(c.start, c.end))]

Wheres ==
    {[none |-> TRUE]} \cup {[dict |-> f] : f \in Filters}
        \cup {Form(c, "expression") : c \in Conditions}

Queries == Wheres \cup {Form(c, how) : c \in Conditions, how \in Hows}

ColumnLists == {PyList(<<"name">>), PyList(<<"score">>), PyList(<<"name", "score">>),
                PyList(<<"name", "birth_date", "score">>)}

InitQuery == \E rows \in QueryTables : InitWith(rows)

\* One call against the table as it was populated: every query is answered on
\* the same rows, as each test of test_select.py runs on a fresh table.
Fresh == call.op = "init"

NextQuery ==
    \/ Fresh /\ \E q \in Queries : Select(Orig, q, NoneVal)
    \/ Fresh /\ \E q \in {[none |-> TRUE], [dict |-> [name |-> PyStr("Jack")]]},
                   cs \in ColumnLists : Select(Orig, q, cs)
    \/ Fresh /\ \E wh \in Wheres : Count(Orig, wh)
    \/ Fresh /\ \E wh \in Wheres : Delete(Orig, wh)
    \/ Fresh /\ \E wh \in Wheres : Update(Orig, wh, [score |-> PyInt(MaxScore)])

SpecQuery == InitQuery /\ [][NextQuery]_vars


\* The rows of the table as select is to return them: the persons stored.
PersonOf(row) == CHOOSE p \in Persons : Stored(p) = row

TableRows == MapSeq(prev.db["populated"].rows, PersonOf)

\* What a filter value asks of the cell r[k] of a returned row.
Satisfies(cell, v) ==
    IF IsBetween(v) THEN v.Between[1].int <= cell.int /\ cell.int <= v.Between[2].int
    ELSE IF IsIn(v) THEN cell \in v.In
    ELSE IF HasPyMagic(v)
    THEN CASE v.magic = "__eq__" -> cell = v.value
           [] v.magic = "__ne__" -> cell # v.value
           [] v.magic = "__ge__" -> cell.int >= v.value.int
           [] v.magic = "__le__" -> cell.int <= v.value.int
           [] v.magic = "__gt__" -> cell.int > v.value.int
           [] v.magic = "__lt__" -> cell.int < v.value.int
    ELSE cell = v

RECURSIVE RowsSatisfying(_, _)
RowsSatisfying(rows, f) ==
    IF rows = <<>> THEN <<>>
    ELSE IF \A k \in DOMAIN f : Satisfies(Head(rows)[k], f[k])
         THEN <<Head(rows)>> \o RowsSatisfying(Tail(rows), f)
         ELSE RowsSatisfying(Tail(rows), f)

\* A filter of plain values, Between, In and comparators only.
PlainValue(v) == IsStr(v) \/ IsInt(v) \/ IsDate(v)

Translatable(f) ==
    \A k \in DOMAIN f :
        PlainValue(f[k]) \/ IsBetween(f[k]) \/ IsIn(f[k]) \/ HasPyMagic(f[k])

IsSubSeq(s, t) == \A i \in 1..Len(s) : \E j \in 1..Len(t) : s[i] = t[j]

WithoutSkips(f) == [k \in {c \in DOMAIN f : ~IsSkip(f[c])} |-> f[k]]

Without(f, k) == [c \in DOMAIN f \ {k} |-> f[c]]

\* The last call, made with the filter f instead of its own.
SameCallWith(f) ==
    CASE call.op = "select" -> select(prev, call.acc, [dict |-> f], call.columns)
      [] call.op = "count" -> count(prev, call.acc, [dict |-> f])
      [] call.op = "delete" -> delete(prev, call.acc, [dict |-> f])
      [] call.op = "update" -> update(prev, call.acc, [dict |-> f], call.values)

FilterOfCall == IF call.op = "select" THEN call.qry ELSE call.where

\* C7: a key whose value is skip counts for nothing: select, count, update
\* and delete return the same and leave the same rows as with the filter
\* without that key, and as with the filter without any of its skips (the
\* empty filter, when every value is skip).
C7_SkipOmitsKey ==
    (/\ call.op \in {"select", "count", "delete", "update"}
     /\ "dict" \in DOMAIN FilterOfCall
     /\ \E k \in DOMAIN FilterOfCall.dict : IsSkip(FilterOfCall.dict[k])) =>
        LET f == FilterOfCall.dict
            stripped == SameCallWith(WithoutSkips(f))
        IN  /\ ret = stripped.res
            /\ db = stripped.w.db
            /\ \A k \in DOMAIN f :
                  IsSkip(f[k]) =>
                      LET without == SameCallWith(Without(f, k)) IN
                      ret = without.res /\ db = without.w.db

\* A delete whose filter held a skip removed some rows and left others.
C7_Witness ==
    /\ call.op = "delete"
    /\ "dict" \in DOMAIN call.where
    /\ DOMAIN call.where.dict = {"name", "score"}
    /\ IsSkip(call.where.dict.score)
    /\ ~IsError(ret)
    /\ db["populated"].rows # <<>>
    /\ Len(db["populated"].rows) < Len(prev.db["populated"].rows)

\* C8: count with no filter, a filter mapping or an expression gives the
\* number of rows select gives for the same filter on the same table, 0 when
\* none matches; it raises when select does.
C8_CountIsLengthOfSelect ==
    call.op = "count" =>
        LET s == select(prev, call.acc, call.where, NoneVal).res IN
        IF IsError(s) THEN ret = s
        ELSE ret = [value |-> PyInt(Len(s.rows))]

\* A count under a filter mapping counted some rows of the table, not all.
C8_Witness ==
    /\ call.op = "count"
    /\ "dict" \in DOMAIN call.where
    /\ ~IsError(ret)
    /\ ret.value.int > 0
    /\ ret.value.int < Len(db["populated"].rows)

\* C9 as claimed: select returns the same rows for one condition whichever
\* form it is given in: raw SQL text, native mapping (a value, a set of
\* values, a slice), SQLAlchemy expression or mapping of Operations.
C9_AllFormsAgree ==
    \A c \in Conditions, how \in Hows :
        (call.op = "select" /\ IsNone(call.columns) /\ call.qry = Form(c, how)) =>
            /\ ~IsError(ret)
            /\ ret = select(prev, call.acc, Form(c, "operation"), NoneVal).res

\* C10 as claimed: with a column list, a select succeeds for any non-empty
\* list of columns of the table and every row holds exactly those columns;
\* without one, every row holds all the columns of the table.
C10_ColumnsRestrictRows ==
    call.op = "select" =>
        IF IsNone(call.columns)
        THEN ~IsError(ret) =>
                \A i \in 1..Len(ret.rows) :
                    DOMAIN ret.rows[i] = ColNames(prev.db["populated"].cols)
        ELSE /\ ~IsError(ret)
             /\ \A i \in 1..Len(ret.rows) :
                    DOMAIN ret.rows[i] =
                        {call.columns.list[j] : j \in 1..Len(call.columns.list)}

(***************************************************************************)
(* SpecNative: one select, by every form of query, on a Table bound to the *)
(* table name or to no name (as the function select() without table=       *)
(* builds it), over tables that also hold a row with no birth date.        *)
(***************************************************************************)
Undated == [name |-> PyStr("Jack"), birth_date |-> NoneVal, score |-> PyInt(1)]

NativeTables == UNION {[1..m -> QueryRows \cup {Undated}] : m \in 0..MaxRows}

NativeQueries ==
    {[none |-> TRUE], [dict |-> [birth_date |-> BirthDate("Jack")]]}
        \cup {Form(c, how) : c \in Conditions, how \in Hows}

InitNative == \E rows \in NativeTables : InitWith(rows)

NextNative ==
    \/ Fresh /\ \E n \in {NoneVal, PyStr("populated")} : SetName(Orig, n)
    \/ call.op \in {"init", "name"} /\ \E q \in NativeQueries : Select(Orig, q, NoneVal)

SpecNative == InitNative /\ [][NextNative]_vars

\* The rows of the backend the last select asked for, as they are stored.
RawRows ==
    LET q == call.qry
        where == IF "str" \in DOMAIN q THEN q.str.where
                 ELSE IF "expr" \in DOMAIN q THEN q.expr
                 ELSE IF "dict" \in DOMAIN q THEN to_sql_expressions(q.dict).where
                 ELSE sql_true
    IN  RowsWhere(prev.db["populated"].rows, where)

\* cell is the stored value in the native type of a column of type sql_type:
\* the date an ISO-8601 string writes, the same string or integer, None for
\* a NULL.
NativeOf(cell, stored, sql_type) ==
    IF IsNone(stored) THEN IsNone(cell)
    ELSE /\ DOMAIN cell = {python_type(sql_type)}
         /\ IF sql_type = "Date" THEN isoformat(cell) = stored.str ELSE cell = stored

\* C11: a select that returns rows on a Table bound to a table name gives,
\* for every form of query, raw text included, each row of the backend with
\* every cell in the native type of its column (a date for the ISO-8601
\* string of a Date column); on a Table with no name it gives the rows as
\* the backend holds them, the date still a string.
C11_NamedSelectConvertsToNative ==
    (call.op = "select" /\ ~IsError(ret)) =>
        IF IsNone(name(prev.acc[call.acc]))
        THEN ret.rows = RawRows
        ELSE /\ Len(ret.rows) = Len(RawRows)
             /\ \A i \in 1..Len(RawRows) :
                   /\ DOMAIN ret.rows[i] = ColNames(PopulatedColumns)
                   /\ \A n \in ColNames(PopulatedColumns) :
                         NativeOf(ret.rows[i][n], RawRows[i][n],
                                  ColOf(PopulatedColumns, n).type)

\* A select by raw text on a named Table returned a date for a stored string.
C11_Witness ==
    /\ call.op = "select"
    /\ "str" \in DOMAIN call.qry
    /\ ~IsNone(name(prev.acc[call.acc]))
    /\ ~IsError(ret)
    /\ Len(ret.rows) > 0
    /\ IsStr(RawRows[1].birth_date)
    /\ IsDate(ret.rows[1].birth_date)

\* A select by raw text on a Table with no name returned the stored string.
C11_WitnessUnnamed ==
    /\ call.op = "select"
    /\ IsNone(name(prev.acc[call.acc]))
    /\ ~IsError(ret)
    /\ Len(ret.rows) > 0
    /\ IsStr(ret.rows[1].birth_date)

(***************************************************************************)
(* SpecTranslate: select, count, update and delete with filters that hold  *)
(* an Operation the translator does not know, alone or beside other keys,  *)
(* on a Table whose schema handle is or is not resolved and whose name may *)
(* be that of a table the database does not hold.                          *)
(***************************************************************************)
UnknownFilters ==
    {[name |-> OtherOperation("regex")]}
        \cup {[name |-> OtherOperation("regex"), score |-> u] :
                 u \in {PyInt(1), skip, Between(PyInt(1), PyInt(MaxScore)),
                        PySlice(PyInt(1), PyInt(MaxScore))}}
        \cup {[name |-> v, score |-> OtherOperation("like")] :
                 v \in {PyStr("Jack"), skip}}

TranslateFilters == UnknownFilters \cup {[name |-> PyStr("Jack")]}

TranslateRows == {Stored(Person("Jack", 1)), Stored(Person("John", MaxScore))}

TranslateTables == UNION {[1..m -> TranslateRows] : m \in 0..MaxRows}

InitTranslate == \E rows \in TranslateTables : InitWith(rows)

NextTranslate ==
    \/ \E n \in TableNames : SetName(Orig, PyStr(n))
    \/ Reflect(Orig)
    \/ \E f \in TranslateFilters : Select(Orig, [dict |-> f], NoneVal)
    \/ \E f \in TranslateFilters : Count(Orig, [dict |-> f])
    \/ \E f \in TranslateFilters : Delete(Orig, [dict |-> f])
    \/ \E f \in TranslateFilters :
          Update(Orig, [dict |-> f], [score |-> PyInt(MaxScore)])

SpecTranslate == InitTranslate /\ [][NextTranslate]_vars

\* The last call was given a filter mapping holding an unknown Operation.
UnknownInCall ==
    /\ call.op \in {"select", "count", "delete", "update"}
    /\ "dict" \in DOMAIN FilterOfCall
    /\ \E k \in DOMAIN FilterOfCall.dict : NotImplemented(FilterOfCall.dict[k])

\* The unknown Operation of the filter of the last call.
UnknownOfCall ==
    LET f == FilterOfCall.dict IN f[CHOOSE k \in DOMAIN f : NotImplemented(f[k])]

\* Nothing reached the backend and no Table changed.
NothingDone == Untouched /\ nextHandle = prev.nextHandle

\* C12 as claimed: a filter holding an Operation that is none of Between,
\* In, skip or a comparator fails with UnsupportedOperation naming the
\* operator, whatever its other keys, and nothing is run against the backend.
C12_UnsupportedOperation ==
    UnknownInCall =>
        /\ ret = [error |-> "UnsupportedOperation", oper |-> UnknownOfCall]
        /\ NothingDone

\* C12, amended: select, update and delete with such a filter fail with
\* NotImplementedError naming the operator, whatever the other keys, before
\* anything is run against the backend or changed.  count resolves the schema
\* handle first: on an Unresolved Table it reflects the table, fails with the
\* error of the reflection when the table cannot be reflected, and otherwise
\* fails with the same NotImplementedError, holding the handle; in no case
\* is the statement of the operation executed.
C12_FailsWithNotImplementedError ==
    UnknownInCall =>
        LET before == prev.acc[call.acc]
            notImplemented == [error |-> "NotImplementedError", oper |-> UnknownOfCall]
        IN  /\ db = prev.db /\ pending = prev.pending /\ conns = prev.conns
            /\ IF call.op # "count" \/ Resolved(before)
               THEN ret = notImplemented /\ NothingDone
               ELSE IF prev.db[name(before).str].exists
               THEN /\ ret = notImplemented
                    /\ Resolved(acc[call.acc])
                    /\ acc[call.acc]._object.id = prev.nextHandle
               ELSE ret = [error |-> "NoSuchTableError"] /\ NothingDone

\* A delete whose filter held an unknown Operation beside a plain value
\* failed and left the rows it would have matched.
C12_Witness ==
    /\ call.op = "delete"
    /\ UnknownInCall
    /\ DOMAIN call.where.dict = {"name", "score"}
    /\ call.where.dict.name = PyStr("Jack")
    /\ IsError(ret)
    /\ \E i \in 1..Len(db["populated"].rows) :
          db["populated"].rows[i].name = PyStr("Jack")
    /\ name(acc[Orig]) = PyStr("populated")

(***************************************************************************)
(* SpecNested: scopes opened one inside the other on the same Table, by    *)
(* __enter__ or open_transaction, while connections are left; the Table    *)
(* exits them, the copies insert, commit and roll back.                    *)
(***************************************************************************)
InitNested == InitWith(<<>>)

NextNested ==
    \/ Enter(Orig)
    \/ OpenTransaction(Orig)
    \/ \E t \in ErrorTypes : Exit(Orig, t)
    \/ \E a \in AccIds, d \in TxRows : Insert(a, d)
    \/ \E a \in AccIds : Commit(a)
    \/ \E a \in AccIds : Rollback(a)

SpecNested == InitNested /\ [][NextNested]_vars

\* The scope of connection i can still be exited: a Table holds its context.
Reachable(i) == \E a \in AccIds : acc[a].alive /\ acc[a]._ctx = i

\* Every scope opened on the Table has been exited: the Table made as many
\* exits that released a scope, or found none left to release, as it opened
\* scopes, so that the context it holds is that of a closed connection.
AllExited ==
    /\ call.op = "__exit__"
    /\ call.acc = Orig
    /\ acc[Orig]._ctx \in ConnIds
    /\ conns[acc[Orig]._ctx].state = "closed"
    /\ prev.conns[acc[Orig]._ctx].state = "closed"

\* C13 as claimed: a scope opened on a Table that has another scope open
\* does not lose the context of the first: every connection with a
\* transaction begun on it is held by the context of some Table, so that
\* __exit__ can release it, and once the Table has exited until nothing is
\* left for it to release, no connection is open.
C13_NoScopeLost ==
    /\ \A i \in ConnIds : conns[i].state = "open" => Reachable(i)
    /\ AllExited => \A i \in ConnIds : conns[i].state # "open"

(***************************************************************************)
(* Statements and transactions (checked under SpecTx): what the insert and *)
(* the delete of a Table leave of the transaction they ran in.             *)
(***************************************************************************)
\* The rows of the table after the statement of the last call, as the
\* insert or the delete is to leave them.
RowsAfter(rows) ==
    IF call.op = "insert" THEN Append(rows, Stored(call.data))
    ELSE SelectSeq(rows, LAMBDA r : \E k \in DOMAIN call.where.dict :
                                       r[k] # call.where.dict[k])

\* C14: a statement executed through a Table bound to the engine runs in a
\* transaction of its own, over when execute returns: its effect is
\* committed, or on a backend error nothing of it is, and no connection or
\* pending write is left of it.  A statement executed through a scoped Table
\* whose transaction is open runs on the connection of the scope: its effect
\* is pending there and seen there, nothing is committed, and the
\* transaction and the connection stay as they were.
C14_ExecuteOwnsItsTransaction ==
    call.op \in {"insert", "delete"} =>
        LET e == prev.acc[call.acc].engine
            committed == prev.db["populated"].rows
        IN  IF IsEngine(e)
            THEN /\ conns = prev.conns
                 /\ pending = prev.pending
                 /\ db["populated"].rows =
                       IF IsError(ret) THEN committed ELSE RowsAfter(committed)
            ELSE (prev.conns[e.conn].state = "open"
                    /\ prev.conns[e.conn].trans # "none") =>
                 /\ db = prev.db
                 /\ conns = prev.conns
                 /\ View(World, e)["populated"].rows =
                       IF IsError(ret) THEN View(prev, e)["populated"].rows
                       ELSE RowsAfter(View(prev, e)["populated"].rows)
                 /\ ~IsError(ret) => pending.holder = e.conn

\* An insert through the Table bound to the engine was committed at once,
\* while a scope was open on a connection.
C14_Witness ==
    /\ call.op = "insert"
    /\ IsEngine(prev.acc[call.acc].engine)
    /\ ~IsError(ret)
    /\ Len(db["populated"].rows) = Len(prev.db["populated"].rows) + 1
    /\ \E i \in ConnIds : conns[i].state = "open" /\ conns[i].trans = "root"

\* A delete through a scoped Table left its effect pending in the scope.
C14_WitnessScoped ==
    /\ call.op = "delete"
    /\ ~IsEngine(prev.acc[call.acc].engine)
    /\ ~IsError(ret)
    /\ db = prev.db
    /\ pending.holder = prev.acc[call.acc].engine.conn
    /\ pending.db # db

====
